---- MODULE Spec2Model ----
(***************************************************************************)
(* Model of experiments/prepare_datasets.py: mask loading, mask            *)
(* combination, the train/valid/test split, the copy of corresponding      *)
(* files, and the orchestration of process_masks behind the __main__       *)
(* guard.                                                                  *)
(*                                                                         *)
(* Names (directory and file names, patterns) are sequences of one-        *)
(* character strings, so that `in` and str.startswith are computed on      *)
(* characters.  An image is a single row of NPix pixels.  The filesystem   *)
(* is read where the code reads it: every os.listdir / cv2.imread draws    *)
(* its answer from a small set at the step that performs the call.         *)
(***************************************************************************)
EXTENDS Integers, Sequences, FiniteSets, TLC

\* ------------------------------------------------------------- bounds
NPix == 2
MaxFiles == 2
MaxMasks == 3
MaxNameLen == 2
MaxListing == 2

\* np.uint16: the dtype of the combined mask
Uint16Mod == 65536

\* ------------------------------------------------------------- strings
\* str.startswith
StartsWithFolded(s, p) ==
    LET Fold(c) == IF c = "A" THEN "a" ELSE IF c = "B" THEN "b" ELSE c
    IN  /\ Len(p) <= Len(s)
        /\ \A i \in 1..Len(p) : Fold(s[i]) = Fold(p[i])

StartsWith(s, p) ==
    /\ Len(p) <= Len(s)
    /\ \A i \in 1..Len(p) : s[i] = p[i]

\* `p in s` on strings: substring containment
Contains(s, p) ==
    \E i \in 0..(Len(s) - Len(p)) : \A j \in 1..Len(p) : s[i + j] = p[j]

\* all sequences over S of length lo..hi
SeqsOf(S, lo, hi) == UNION {[1..n -> S] : n \in lo..hi}

Distinct(s) == \A i, j \in DOMAIN s : i # j => s[i] # s[j]

\* ------------------------------------------------------------- images
Pixels == 1..NPix
ZeroImage == [i \in Pixels |-> 0]
PixelValues == {0, 1, 255}
GrayImages == [Pixels -> PixelValues]

\* a file of a mask directory: cv2.imread decodes it or returns None
Unreadable == [ok |-> FALSE, px |-> ZeroImage]
ImageFile(img) == [ok |-> TRUE, px |-> img]

\* ------------------------------------------------------------- load_mask_images
RECURSIVE LoadFromStopping(_, _)
LoadFromStopping(files, images) ==
    IF files = <<>> THEN images
    ELSE IF Head(files).ok
         THEN LoadFromStopping(Tail(files), Append(images, Head(files).px))
         ELSE images

RECURSIVE LoadFrom(_, _)
LoadFrom(files, images) ==
    IF files = <<>> THEN images
    ELSE LET file == Head(files)
         IN  IF file.ok
             THEN LoadFrom(Tail(files), Append(images, file.px))
             ELSE LoadFrom(Tail(files), images)

load_mask_images_stop(files) == LoadFromStopping(files, <<>>)

\* files: the directory's files in os.listdir order
load_mask_images(files) == LoadFrom(files, <<>>)

\* ------------------------------------------------------------- combine_masks
ToUint16(n) == n % Uint16Mod

\* combined_mask[np.where(mask > 0)] = object_id
PaintKeep(combined, mask, object_id) ==
    [i \in Pixels |-> IF mask[i] > 0 /\ combined[i] = 0
                      THEN ToUint16(object_id) ELSE combined[i]]

Paint(combined, mask, object_id) ==
    [i \in Pixels |-> IF mask[i] > 0 THEN ToUint16(object_id) ELSE combined[i]]

RECURSIVE CombineFrom(_, _, _)
CombineFrom(masks, combined, object_id) ==
    IF masks = <<>> THEN combined
    ELSE CombineFrom(Tail(masks), Paint(combined, Head(masks), object_id),
                     object_id + 1)

combine_masks_zero(mask_images) ==
    [err |-> "none", img |-> CombineFrom(mask_images, ZeroImage, 1)]

\* mask_images[0].shape raises IndexError on an empty list
combine_masks(mask_images) ==
    IF mask_images = <<>>
    THEN [err |-> "IndexError", img |-> ZeroImage]
    ELSE [err |-> "none", img |-> CombineFrom(mask_images, ZeroImage, 1)]

\* ------------------------------------------------------------- split_data
\* data[key].append(path) on a defaultdict(list): keys in insertion order
AppendTo(data, key, path) ==
    IF \E i \in DOMAIN data : data[i].split = key
    THEN [i \in DOMAIN data |->
            IF data[i].split = key
            THEN [data[i] EXCEPT !.files = Append(@, path)]
            ELSE data[i]]
    ELSE Append(data, [split |-> key, files |-> <<path>>])

BucketTestFirst(dirname, val_pattern, test_pattern) ==
    IF Contains(dirname, test_pattern) THEN "test"
    ELSE IF Contains(dirname, val_pattern) THEN "valid"
    ELSE "train"

Bucket(dirname, val_pattern, test_pattern) ==
    IF Contains(dirname, val_pattern) THEN "valid"
    ELSE IF Contains(dirname, test_pattern) THEN "test"
    ELSE "train"

RECURSIVE SplitFrom(_, _, _, _)
SplitFrom(listing, val_pattern, test_pattern, data) ==
    IF listing = <<>> THEN data
    ELSE SplitFrom(Tail(listing), val_pattern, test_pattern,
                   AppendTo(data, Bucket(Head(listing), val_pattern, test_pattern),
                            Head(listing)))

\* listing: os.listdir(directory_path); the paths are kept as the child names
split_data(listing, val_pattern, test_pattern) ==
    SplitFrom(listing, val_pattern, test_pattern, <<>>)

\* ------------------------------------------------------------- files written
MaskContent(img) == [kind |-> "mask", px |-> img]
CopyContent == [kind |-> "copy", px |-> ZeroImage]

\* a file tree with content c stored at path p
Store(tree, p, c) == (p :> c) @@ tree

\* ------------------------------------------------------------- copy_corresponding_files
\* an entry of the corresponding-files directory: a regular file or a directory
FileEntry(name) == [name |-> name, dir |-> FALSE]
DirEntry(name) == [name |-> name, dir |-> TRUE]

\* copy2 raises IsADirectoryError on a directory: the loop ends there
RECURSIVE CopyFrom(_, _, _, _)
CopyFrom(entries, output_dir, filename_base, tree) ==
    IF entries = <<>> THEN [err |-> "none", tree |-> tree]
    ELSE LET file == Head(entries)
         IN  IF ~StartsWith(file.name, filename_base)
             THEN CopyFrom(Tail(entries), output_dir, filename_base, tree)
             ELSE IF file.dir
             THEN [err |-> "IsADirectoryError", tree |-> tree]
             ELSE CopyFrom(Tail(entries), output_dir, filename_base,
                           Store(tree, Append(output_dir, file.name), CopyContent))

\* entries: os.listdir(corresponding_files_dir); tree: the output files so far
copy_corresponding_files(entries, output_dir, filename_base, tree) ==
    CopyFrom(entries, output_dir, filename_base, tree)

\* ------------------------------------------------------------- arguments
\* --val_pattern, --test_pattern, --format defaults; exclude_class default
ValPattern == <<"S", "T", "_", "I", "0", "6">>
TestPattern == <<"S", "T", "_", "K", "0", "7">>
FormatName == <<"p", "n", "g">>
exclude_class == {"Unidentified"}

\* f"{filename_base}_masks.{format}"
MaskFileName(filename_base) ==
    filename_base \o <<"_", "m", "a", "s", "k", "s", ".">> \o FormatName

\* os.path.join(output_dir, format, class_name, split_name): the part under output_dir
OutputDir(class_name, split_name) == <<FormatName, class_name, split_name>>

\* root: what is at output_dir ("absent", "file" or "dir"); made: the directories
\* under it.  os.makedirs raises when output_dir is a regular file.
create_directory(directory_path, root, made) ==
    IF directory_path \in made THEN [err |-> "none", root |-> root, dirs |-> made]
    ELSE IF root = "file"
    THEN [err |-> "NotADirectoryError", root |-> root, dirs |-> made]
    ELSE [err |-> "none", root |-> "dir", dirs |-> made \cup {directory_path}]

IsExcludedNever(class_name) == FALSE

IsExcluded(class_name) == class_name \in exclude_class

\* ------------------------------------------------------------- the input tree
S1 == <<"S", "1">>
S1Valid == S1 \o <<"_">> \o ValPattern
Tif == <<".", "t", "i", "f">>

SampleNames == {S1, S1Valid}
\* a directory listing: any order of any set of names
SampleListings == {l \in SeqsOf(SampleNames, 0, Cardinality(SampleNames)) : Distinct(l)}

\* os.listdir(dirpath): no class, one, two, one named like the aggregate
\* directory, one excluded
ClassListings ==
    { <<>>, <<"A">>, <<"A", "B">>, <<"all", "A">>, <<"A", "all">>,
      <<"Unidentified">>, <<"Unidentified", "A">>, <<"A", "Unidentified">> }

\* one-object masks: object k covers pixel k only
ObjectMask(k) == [i \in Pixels |-> IF i = k THEN 255 ELSE 0]
MaskFiles == {Unreadable, ImageFile(ObjectMask(1)), ImageFile(ObjectMask(2))}
\* the files of a mask directory, at most n of them
MaskDirs(n) == SeqsOf(MaskFiles, 0, n)

\* os.listdir(corresponding_files_dir), in either order: the raw files of the
\* samples, or a raw file and a directory with a sample's name as prefix
CorrListings ==
    { <<FileEntry(S1 \o Tif), FileEntry(S1Valid \o Tif)>>,
      <<FileEntry(S1Valid \o Tif), FileEntry(S1 \o Tif)>>,
      <<FileEntry(S1 \o Tif), DirEntry(S1Valid)>>,
      <<DirEntry(S1Valid), FileEntry(S1 \o Tif)>> }

\* ------------------------------------------------------------- state
VARIABLES
    pc,           \* "start", "main", "sample", "class", "done", "failed", "exited"; "idle" outside a run
    err,          \* the exception that ended the run, or "none"
    out_root,     \* what is at output_dir: "absent", "file" or "dir"
    data,         \* split_data's result
    si, di,       \* position of the two loops over data.items() and split_files
    classes, ci,  \* os.listdir(dirpath) and the position of the loop over it
    mask_images,  \* the local variable of process_masks: unbound until a class is loaded
    all_masks,    \* the local list of process_masks
    fs,           \* files under output_dir: path -> content
    dirs,         \* directories under output_dir made by create_directory
    mask_from,    \* history: the sample and class mask_images was loaded from
    mask_writes,  \* history: the cv2.imwrite calls of the run
    reads,        \* history: the number of mask files read so far, over all runs
    arg, ret      \* argument and result of a function applied on its own

vars == <<pc, err, out_root, data, si, di, classes, ci, mask_images,
          all_masks, fs, dirs, mask_from, mask_writes, reads, arg, ret>>

runVars == <<pc, err, out_root, data, si, di, classes, ci, mask_images,
             all_masks, fs, dirs, mask_from, mask_writes, reads>>

NoFiles == [p \in {} |-> CopyContent]
Unbound == [bound |-> FALSE, imgs |-> <<>>]
NoSource == [base |-> <<>>, class |-> "", files |-> 0]
NoCall == [called |-> FALSE, val |-> <<>>]
Returned(v) == [called |-> TRUE, val |-> v]

\* a fresh call: no local of process_masks is set
FreshLocals ==
    /\ data' = <<>>
    /\ si' = 1
    /\ di' = 1
    /\ classes' = <<>>
    /\ ci' = 1
    /\ mask_images' = Unbound
    /\ all_masks' = <<>>
    /\ mask_from' = NoSource
    /\ mask_writes' = {}

Init ==
    /\ pc = "start"
    /\ err = "none"
    /\ out_root \in {"absent", "file", "dir"}
    /\ data = <<>>
    /\ si = 1
    /\ di = 1
    /\ classes = <<>>
    /\ ci = 1
    /\ mask_images = Unbound
    /\ all_masks = <<>>
    /\ fs = NoFiles
    /\ dirs = {}
    /\ mask_from = NoSource
    /\ mask_writes = {}
    /\ reads = 0
    /\ arg = NoCall
    /\ ret = NoCall

\* ------------------------------------------------------------- __main__ and process_masks
Stopped == pc \in {"start", "done", "failed", "exited"}

\* os.path.exists(output_dir)
out_exists == out_root # "absent"

\* the test of __main__ on the output path
OutputGuard(exists) == exists

\* process_masks: the input path does not exist: log and return
ProcessMasksNoInput ==
    /\ pc' = "done"
    /\ err' = "none"
    /\ FreshLocals
    /\ UNCHANGED <<out_root, fs, dirs, reads, arg, ret>>

\* process_masks: the input path is not a directory: os.listdir raises in split_data
ProcessMasksInputNotDir ==
    /\ pc' = "failed"
    /\ err' = "NotADirectoryError"
    /\ FreshLocals
    /\ UNCHANGED <<out_root, fs, dirs, reads, arg, ret>>

\* process_masks up to the loops: split_data(input_path, ...)
ProcessMasksSplits(listing) ==
    /\ data' = split_data(listing, ValPattern, TestPattern)
    /\ pc' = IF listing = <<>> THEN "done" ELSE "sample"
    /\ err' = "none"
    /\ si' = 1
    /\ di' = 1
    /\ classes' = <<>>
    /\ ci' = 1
    /\ mask_images' = Unbound
    /\ all_masks' = <<>>
    /\ mask_from' = NoSource
    /\ mask_writes' = {}
    /\ UNCHANGED <<out_root, fs, dirs, reads, arg, ret>>

\* process_masks is entered: it has no test of the output path
ProcessMasksStart ==
    \/ ProcessMasksNoInput
    \/ ProcessMasksInputNotDir
    \/ \E listing \in SampleListings : ProcessMasksSplits(listing)

\* __main__, lines 129-131: the output path already exists: log and exit()
MainExits ==
    /\ Stopped
    /\ OutputGuard(out_exists)
    /\ pc' = "exited"
    /\ err' = "none"
    /\ FreshLocals
    /\ UNCHANGED <<out_root, fs, dirs, reads, arg, ret>>

\* __main__, lines 129-131: the output path does not exist: go on to line 133
MainPasses ==
    /\ Stopped
    /\ ~OutputGuard(out_exists)
    /\ pc' = "main"
    /\ err' = "none"
    /\ FreshLocals
    /\ UNCHANGED <<out_root, fs, dirs, reads, arg, ret>>

\* __main__, line 133: process_masks(...)
MainCalls ==
    /\ pc = "main"
    /\ ProcessMasksStart

\* process_masks called as a function, not through __main__
DirectCall ==
    /\ Stopped
    /\ ProcessMasksStart

split_name == data[si].split
filename_base == data[si].files[di]

\* lines 80-84: a sample starts: all_masks = [], create_directory of the "all" directory
all_dir == create_directory(OutputDir("all", split_name), out_root, dirs)

\* lines 80-87: a sample starts: the "all" directory, then os.listdir(dirpath)
BeginSample(class_listing) ==
    /\ pc = "sample"
    /\ all_dir.err = "none"
    /\ all_masks' = <<>>
    /\ dirs' = all_dir.dirs
    /\ out_root' = all_dir.root
    /\ classes' = class_listing
    /\ ci' = 1
    /\ pc' = "class"
    /\ UNCHANGED <<err, data, si, di, mask_images, fs, mask_from,
                   mask_writes, reads, arg, ret>>

\* lines 80-84 when output_dir is a regular file: create_directory raises
SampleDirFails ==
    /\ pc = "sample"
    /\ all_dir.err # "none"
    /\ all_masks' = <<>>
    /\ pc' = "failed"
    /\ err' = all_dir.err
    /\ UNCHANGED <<out_root, data, si, di, classes, ci, mask_images, fs, dirs,
                   mask_from, mask_writes, reads, arg, ret>>

\* lines 80-87 when dirpath is a file: os.listdir(dirpath) raises
SampleNotDir ==
    /\ pc = "sample"
    /\ all_dir.err = "none"
    /\ all_masks' = <<>>
    /\ dirs' = all_dir.dirs
    /\ out_root' = all_dir.root
    /\ pc' = "failed"
    /\ err' = "NotADirectoryError"
    /\ UNCHANGED <<data, si, di, classes, ci, mask_images, fs, mask_from,
                   mask_writes, reads, arg, ret>>

\* lines 89-91: an excluded class is skipped
SkipClass ==
    /\ pc = "class"
    /\ ci <= Len(classes)
    /\ IsExcluded(classes[ci])
    /\ ci' = ci + 1
    /\ UNCHANGED <<pc, err, out_root, data, si, di, classes, mask_images,
                   all_masks, fs, dirs, mask_from, mask_writes, reads, arg, ret>>

\* line 93 when the class entry is a file: os.listdir raises in load_mask_images
ClassNotDir ==
    /\ pc = "class"
    /\ ci <= Len(classes)
    /\ ~IsExcluded(classes[ci])
    /\ pc' = "failed"
    /\ err' = "NotADirectoryError"
    /\ UNCHANGED <<out_root, data, si, di, classes, ci, mask_images,
                   all_masks, fs, dirs, mask_from, mask_writes, reads, arg, ret>>

\* lines 93-106: one class of the sample: load, combine, write, copy
ProcessClass(files, corr) ==
    /\ pc = "class"
    /\ ci <= Len(classes)
    /\ ~IsExcluded(classes[ci])
    /\ LET class_name == classes[ci]
           loaded == load_mask_images(files)
           class_masks == combine_masks(loaded)
           output_dir_class_split == OutputDir(class_name, split_name)
           class_dir == create_directory(output_dir_class_split, out_root, dirs)
           save_filepath == Append(output_dir_class_split, MaskFileName(filename_base))
           copied == copy_corresponding_files(corr, output_dir_class_split,
                        filename_base,
                        Store(fs, save_filepath, MaskContent(class_masks.img)))
       IN  /\ mask_images' = [bound |-> TRUE, imgs |-> loaded]
           /\ mask_from' = [base |-> filename_base, class |-> class_name,
                            files |-> Len(files)]
           /\ reads' = reads + Len(files)
           /\ IF class_masks.err # "none"
              THEN /\ pc' = "failed"
                   /\ err' = class_masks.err
                   /\ UNCHANGED <<ci, all_masks, fs, dirs, mask_writes>>
              ELSE IF class_dir.err # "none"
              THEN /\ all_masks' = all_masks \o <<class_masks.img>>
                   /\ pc' = "failed"
                   /\ err' = class_dir.err
                   /\ UNCHANGED <<ci, fs, dirs, mask_writes>>
              ELSE /\ all_masks' = all_masks \o <<class_masks.img>>
                   /\ dirs' = class_dir.dirs
                   /\ fs' = copied.tree
                   /\ mask_writes' = mask_writes \cup
                        {[kind |-> "class", class |-> class_name, split |-> split_name,
                          base |-> filename_base, path |-> save_filepath,
                          img |-> class_masks.img, n |-> Len(loaded),
                          from |-> [base |-> filename_base, class |-> class_name]]}
                   /\ IF copied.err # "none"
                      THEN pc' = "failed" /\ err' = copied.err /\ UNCHANGED ci
                      ELSE ci' = ci + 1 /\ UNCHANGED <<pc, err>>
    /\ UNCHANGED <<out_root, data, si, di, classes, arg, ret>>

\* lines 108-114: the aggregated mask of the sample, then the next sample
FinishSample(corr) ==
    /\ pc = "class"
    /\ ci > Len(classes)
    /\ LET combined_mask == combine_masks(mask_images.imgs)
           all_masks_output_dir == OutputDir("all", split_name)
           save_filepath == Append(all_masks_output_dir, MaskFileName(filename_base))
           copied == copy_corresponding_files(corr, all_masks_output_dir,
                        filename_base,
                        Store(fs, save_filepath, MaskContent(combined_mask.img)))
       IN  IF ~mask_images.bound
           THEN /\ pc' = "failed"
                /\ err' = "UnboundLocalError"
                /\ UNCHANGED <<si, di, classes, ci, fs, mask_writes>>
           ELSE IF combined_mask.err # "none"
           THEN /\ pc' = "failed"
                /\ err' = combined_mask.err
                /\ UNCHANGED <<si, di, classes, ci, fs, mask_writes>>
           ELSE /\ fs' = copied.tree
                /\ mask_writes' = mask_writes \cup
                     {[kind |-> "all", class |-> "all", split |-> split_name,
                       base |-> filename_base, path |-> save_filepath,
                       img |-> combined_mask.img, n |-> Len(mask_images.imgs),
                       from |-> [base |-> mask_from.base, class |-> mask_from.class]]}
                /\ IF copied.err # "none"
                   THEN /\ pc' = "failed"
                        /\ err' = copied.err
                        /\ UNCHANGED <<si, di, classes, ci>>
                   ELSE /\ IF di < Len(data[si].files)
                           THEN di' = di + 1 /\ UNCHANGED si /\ pc' = "sample"
                           ELSE IF si < Len(data)
                           THEN si' = si + 1 /\ di' = 1 /\ pc' = "sample"
                           ELSE UNCHANGED <<si, di>> /\ pc' = "done"
                        /\ classes' = <<>>
                        /\ ci' = 1
                        /\ UNCHANGED err
    /\ UNCHANGED <<out_root, data, mask_images, all_masks,
                   dirs, mask_from, reads, arg, ret>>

Next ==
    \/ MainExits
    \/ MainPasses
    \/ MainCalls
    \/ DirectCall
    \/ \E class_listing \in ClassListings : BeginSample(class_listing)
    \/ SampleDirFails
    \/ SampleNotDir
    \/ SkipClass
    \/ ClassNotDir
    \/ \E files \in MaskDirs(MaxFiles - reads), corr \in CorrListings :
          ProcessClass(files, corr)
    \/ \E corr \in CorrListings : FinishSample(corr)

Spec == Init /\ [][Next]_vars

\* ------------------------------------------------------------- functions on their own
\* no run of the script is in progress
NoRun ==
    /\ pc = "idle"
    /\ err = "none"
    /\ out_root = "absent"
    /\ data = <<>>
    /\ si = 1
    /\ di = 1
    /\ classes = <<>>
    /\ ci = 1
    /\ mask_images = Unbound
    /\ all_masks = <<>>
    /\ fs = NoFiles
    /\ dirs = {}
    /\ mask_from = NoSource
    /\ mask_writes = {}
    /\ reads = 0

Chars == {"a", "A"}
Names == SeqsOf(Chars, 1, MaxNameLen)
Patterns == SeqsOf(Chars, 0, MaxNameLen)
Listings == {l \in SeqsOf(Names, 0, MaxListing) : Distinct(l)}
\* a listing of files and directories, no name twice
EntryListings ==
    {l \in SeqsOf([name : Names, dir : BOOLEAN], 0, MaxListing) :
        \A i, j \in DOMAIN l : i # j => l[i].name # l[j].name}

\* combine_masks(mask_images)
InitCombine ==
    /\ NoRun
    /\ arg \in SeqsOf(GrayImages, 0, MaxMasks)
    /\ ret = NoCall

CallCombine ==
    /\ ~ret.called
    /\ ret' = Returned(combine_masks(arg))
    /\ UNCHANGED <<runVars, arg>>

SpecCombine == InitCombine /\ [][CallCombine]_vars

\* load_mask_images(folder_path)
InitLoad ==
    /\ NoRun
    /\ arg \in SeqsOf({Unreadable} \cup {ImageFile(g) : g \in GrayImages}, 0, MaxMasks)
    /\ ret = NoCall

CallLoad ==
    /\ ~ret.called
    /\ ret' = Returned(load_mask_images(arg))
    /\ UNCHANGED <<runVars, arg>>

SpecLoad == InitLoad /\ [][CallLoad]_vars

\* split_data(directory_path, val_pattern, test_pattern)
InitSplit ==
    /\ NoRun
    /\ arg \in [listing : Listings, val : Patterns, test : Patterns]
    /\ ret = NoCall

CallSplit ==
    /\ ~ret.called
    /\ ret' = Returned(split_data(arg.listing, arg.val, arg.test))
    /\ UNCHANGED <<runVars, arg>>

SpecSplit == InitSplit /\ [][CallSplit]_vars

\* copy_corresponding_files(corresponding_files_dir, output_dir, filename_base)
CopyDir == OutputDir("A", "train")

InitCopy ==
    /\ NoRun
    /\ arg \in [files : EntryListings, base : Patterns]
    /\ ret = NoCall

CallCopy ==
    /\ ~ret.called
    /\ ret' = Returned(copy_corresponding_files(arg.files, CopyDir, arg.base, NoFiles))
    /\ UNCHANGED <<runVars, arg>>

SpecCopy == InitCopy /\ [][CallCopy]_vars

\* ------------------------------------------------------------- properties
Foreground(img) == {i \in Pixels : img[i] # 0}
Labels(img) == {img[i] : i \in Pixels} \ {0}
Range(seq) == {seq[k] : k \in DOMAIN seq}

\* the position of the last mask that is non-zero at pixel i, 0 if there is none
LastPosition(masks, i) ==
    LET hits == {k \in DOMAIN masks : masks[k][i] # 0}
    IN  IF hits = {} THEN 0 ELSE CHOOSE k \in hits : \A j \in hits : j <= k

NoOverlap(masks) ==
    \A j, k \in DOMAIN masks :
        j # k => Foreground(masks[j]) \cap Foreground(masks[k]) = {}

LastWriteWins(masks, result) ==
    /\ result.err = "none"
    /\ DOMAIN result.img = Pixels
    /\ \A i \in Pixels : result.img[i] = LastPosition(masks, i)

OneLabelPerMask(masks, result) ==
    /\ Cardinality(Labels(result.img)) = Len(masks)
    /\ \A k \in DOMAIN masks :
          {i \in Pixels : result.img[i] = k} = Foreground(masks[k])

\* C2 as stated: combine_masks is last-write-wins per pixel, and whenever no two
\* masks overlap the output has exactly N distinct non-zero values, value k on
\* exactly the foreground of mask k.
C2_CombineAsStated ==
    (ret.called /\ arg # <<>>) =>
        /\ LastWriteWins(arg, ret.val)
        /\ NoOverlap(arg) => OneLabelPerMask(arg, ret.val)

\* C2 amended: combine_masks is last-write-wins per pixel, and whenever no two
\* masks overlap and every mask has at least one non-zero pixel the output has
\* exactly N distinct non-zero values, value k on exactly the foreground of mask k.
C2_CombineLastWriteWins ==
    (ret.called /\ arg # <<>>) =>
        /\ LastWriteWins(arg, ret.val)
        /\ (NoOverlap(arg) /\ \A k \in DOMAIN arg : Foreground(arg[k]) # {})
              => OneLabelPerMask(arg, ret.val)

\* two masks overlap at a pixel and the later one's position is stored there
C2_Witness ==
    /\ ret.called
    /\ \E i \in Pixels : \E j, k \in DOMAIN arg :
          /\ j < k
          /\ arg[j][i] # 0
          /\ arg[k][i] # 0
          /\ ret.val.img[i] = k

\* substring containment, by the slice
HasSubstring(s, p) ==
    \E i \in 1..(Len(s) + 1) :
        /\ i + Len(p) - 1 <= Len(s)
        /\ SubSeq(s, i, i + Len(p) - 1) = p

InBucket(d, key, name) ==
    \E i \in DOMAIN d : d[i].split = key /\ \E j \in DOMAIN d[i].files : d[i].files[j] = name

Occurrences(d, name) ==
    Cardinality({ij \in UNION {{<<i, j>> : j \in DOMAIN d[i].files} : i \in DOMAIN d} :
                    d[ij[1]].files[ij[2]] = name})

\* C3: split_data puts every child name in exactly one of train, valid, test:
\* valid when the name contains the validation pattern (also when it contains the
\* test pattern too), test when it contains only the test pattern, train otherwise.
C3_SplitIsPartition ==
    ret.called =>
        LET d == ret.val
        IN  /\ \A i \in DOMAIN d : d[i].split \in {"train", "valid", "test"}
            /\ \A i, j \in DOMAIN d : i # j => d[i].split # d[j].split
            /\ \A i \in DOMAIN d : Range(d[i].files) \subseteq Range(arg.listing)
            /\ \A name \in Range(arg.listing) :
                  /\ Occurrences(d, name) = 1
                  /\ HasSubstring(name, arg.val) => InBucket(d, "valid", name)
                  /\ (~HasSubstring(name, arg.val) /\ HasSubstring(name, arg.test))
                        => InBucket(d, "test", name)
                  /\ (~HasSubstring(name, arg.val) /\ ~HasSubstring(name, arg.test))
                        => InBucket(d, "train", name)

\* a name containing both (different, non-empty) patterns has been put in valid
C3_Witness ==
    /\ ret.called
    /\ arg.val # <<>>
    /\ arg.test # <<>>
    /\ arg.val # arg.test
    /\ \E name \in Range(arg.listing) :
          /\ HasSubstring(name, arg.val)
          /\ HasSubstring(name, arg.test)
          /\ InBucket(ret.val, "valid", name)

IsPrefix(p, s) == Len(p) <= Len(s) /\ SubSeq(s, 1, Len(p)) = p

Prefixed(entries, base) == {k \in DOMAIN entries : IsPrefix(base, entries[k].name)}
PrefixedDirs(entries, base) == {k \in Prefixed(entries, base) : entries[k].dir}

\* C6 as stated: copy_corresponding_files copies into the destination all and only
\* the entries of the source whose name starts with the base name,
\* case-sensitively; nothing, and no error, when none matches or the source is empty.
C6_CopiesEveryPrefixedEntry ==
    ret.called =>
        /\ DOMAIN ret.val.tree =
              {Append(CopyDir, arg.files[k].name) : k \in Prefixed(arg.files, arg.base)}
        /\ Prefixed(arg.files, arg.base) = {} => ret.val.err = "none"

\* C6 amended: copy_corresponding_files copies into the destination all and only
\* the entries whose name starts with the base name (case-sensitively) and that
\* are listed before the first such entry that is a directory; at that directory
\* it raises IsADirectoryError.  With no such directory it copies every prefixed
\* entry and raises no error; with no prefixed entry it copies nothing.
C6_CopiesPrefixedUpToDirectory ==
    ret.called =>
        LET stop == PrefixedDirs(arg.files, arg.base)
            copied == {k \in Prefixed(arg.files, arg.base) : \A d \in stop : k < d}
        IN  /\ DOMAIN ret.val.tree = {Append(CopyDir, arg.files[k].name) : k \in copied}
            /\ \A p \in DOMAIN ret.val.tree : ret.val.tree[p] = CopyContent
            /\ ret.val.err = (IF stop = {} THEN "none" ELSE "IsADirectoryError")

\* the source holds a file with the prefix, copied, and an entry without, left out
C6_Witness ==
    /\ ret.called
    /\ ret.val.err = "none"
    /\ arg.base # <<>>
    /\ \E f, g \in Range(arg.files) :
          /\ IsPrefix(arg.base, f.name)
          /\ ~IsPrefix(arg.base, g.name)
          /\ Append(CopyDir, f.name) \in DOMAIN ret.val.tree
          /\ Append(CopyDir, g.name) \notin DOMAIN ret.val.tree

IsReadable(file) == file.ok
Decoded(files) ==
    LET readable == SelectSeq(files, IsReadable)
    IN  [k \in 1..Len(readable) |-> readable[k].px]

\* C9: load_mask_images returns, in listing order, exactly the images of the
\* files that decode, skips every file that does not, and returns the empty
\* sequence when the directory is empty or no file decodes.
C9_LoadSkipsUnreadable ==
    ret.called =>
        /\ Len(ret.val) = Len(Decoded(arg))
        /\ \A k \in 1..Len(ret.val) : ret.val[k] = Decoded(arg)[k]
        /\ (\A k \in DOMAIN arg : ~arg[k].ok) => ret.val = <<>>

\* an unreadable file comes before a readable one, and the readable one is returned
C9_Witness ==
    /\ ret.called
    /\ Len(ret.val) >= 1
    /\ \E j, k \in DOMAIN arg : j < k /\ ~arg[j].ok /\ arg[k].ok

\* ---- process_masks
ClassWrites(base) == {w \in mask_writes : w.kind = "class" /\ w.base = base}
AllWrites == {w \in mask_writes : w.kind = "all"}

RECURSIVE MasksLoaded(_)
MasksLoaded(writes) ==
    IF writes = {} THEN 0
    ELSE LET w == CHOOSE x \in writes : TRUE
         IN  w.n + MasksLoaded(writes \ {w})

\* the masks of the sample's classes do not overlap, within a class or across classes
SampleMasksDisjoint(cw) ==
    /\ \A c \in cw : Cardinality(Labels(c.img)) = c.n
    /\ \A c1, c2 \in cw : c1 # c2 => Foreground(c1.img) \cap Foreground(c2.img) = {}

\* C1: the aggregated mask of a sample holds the objects of every non-excluded
\* class of the sample, numbered on across classes: with no overlap its number of
\* labelled objects is the number of masks loaded over all those classes.  Stated
\* for samples with at least one non-excluded class, none of them named "all".
C1_AggregateHoldsEveryClass ==
    \A w \in AllWrites :
        LET cw == ClassWrites(w.base)
        IN  (/\ cw # {}
             /\ \A c \in cw : c.class # "all"
             /\ SampleMasksDisjoint(cw))
            => /\ \A c \in cw : Foreground(c.img) \subseteq Foreground(w.img)
               /\ Cardinality(Labels(w.img)) = MasksLoaded(cw)

\* C4: after a completed run every non-excluded class of every sample has its
\* mask file at <format>/<class>/<split>/<sample>_masks.<format>, split being the
\* sample's bucket, and the file holds that class's combined mask (no other entry
\* has overwritten it).
C4_ClassFileHoldsClassMask ==
    pc = "done" =>
        \A w \in mask_writes :
            w.kind = "class" =>
                /\ w.split = (IF HasSubstring(w.base, ValPattern) THEN "valid"
                              ELSE IF HasSubstring(w.base, TestPattern) THEN "test"
                              ELSE "train")
                /\ w.path = <<FormatName, w.class, w.split, MaskFileName(w.base)>>
                /\ w.path \in DOMAIN fs
                /\ fs[w.path] = MaskContent(w.img)

\* C5: an excluded class produces no output: no directory and no file under
\* <format>/<excluded class>, no mask written for it, and no mask written for any
\* sample is computed from masks loaded from an excluded class.
C5_ExcludedClassNoOutput ==
    \A c \in exclude_class :
        /\ \A d \in dirs : d[2] # c
        /\ \A p \in DOMAIN fs : p[2] # c
        /\ \A w \in mask_writes : w.class # c /\ w.from.class # c
        /\ mask_from.class # c

\* a sample listed an excluded class, which was passed over, and a class of the
\* same sample has been written
C5_Witness ==
    /\ pc = "class"
    /\ ci > Len(classes)
    /\ \E k \in DOMAIN classes : classes[k] \in exclude_class
    /\ ClassWrites(filename_base) # {}

\* C7: the processor run against an output root that already exists performs no
\* write: when a run comes to its first sample with the output root present, no
\* directory is made and no file is written.
C7_ExistingOutputNoWrites ==
    [][(pc = "sample" /\ si = 1 /\ di = 1 /\ out_exists) =>
          /\ dirs' = dirs
          /\ fs' = fs]_vars

\* the script alone: started through __main__ while the output root exists, it
\* exits without a write (the test of lines 129-131 comes before the call of line 133)
MainExitsOnExistingOutput ==
    [][(Stopped /\ out_exists /\ pc' \in {"main", "exited"}) =>
          /\ pc' = "exited"
          /\ fs' = fs
          /\ dirs' = dirs
          /\ out_root' = out_root
          /\ mask_writes' = {}]_vars

\* C8: combining zero masks fails and yields no image: when a non-excluded class
\* directory gives no usable mask the run fails in combine_masks and no mask file
\* is written by that run for that class and sample; no mask file is ever made
\* from zero masks.
C8_ZeroMasksFail ==
    /\ \A w \in mask_writes : w.n >= 1
    /\ (mask_images.bound /\ mask_images.imgs = <<>>) =>
          /\ pc = "failed"
          /\ err = "IndexError"
          /\ \A w \in mask_writes :
                ~(w.kind = "class" /\ w.class = mask_from.class /\ w.base = mask_from.base)

\* a class directory whose files all fail to decode ended the run after an earlier
\* class was written
C8_Witness ==
    /\ pc = "failed"
    /\ err = "IndexError"
    /\ mask_images.bound
    /\ mask_images.imgs = <<>>
    /\ mask_from.files > 0
    /\ mask_writes # {}

\* C10: nothing is carried over from one sample to the next: every mask file
\* written for a sample, its aggregated mask included, is computed from masks
\* loaded from that sample's own class directories.
C10_NoCarryOver ==
    \A w \in mask_writes : w.from.base = w.base

====
